---- MODULE Spec2Model ----
(***************************************************************************)
(* Model of scripts/generate_sensor_power_table.py (shader table parser,   *)
(* CSV cross-reference join, table writer) and of                          *)
(* scripts/update_shader_energy.py (regex patcher of the shader table).    *)
(*                                                                         *)
(* Text is modelled at two levels.  The contents of one vec4 component and *)
(* of the CSV Modifier cell are sequences of one-character strings, and    *)
(* the float / int conversions work on those characters.  A shader line is *)
(* a record of the facts the parser's regular expressions and substring    *)
(* tests read from it (is it blank, does it start with "//", does it match *)
(* header_re, does it contain the array marker, which vec4 groups does     *)
(* re.findall return).  Numbers are exact decimals [m, e] = m * 10^e, kept *)
(* normalised, so that equal values are equal records.                     *)
(* Sequences are 1-based: the code's line index i is i + 1 here.           *)
(***************************************************************************)
EXTENDS Integers, Sequences, FiniteSets, TLC

\* ------------------------------------------------------------------ bounds
MaxLines == 3
MaxBlocks == 2
MaxCsvRows == 2
MaxPatchRecords == 2

\* ------------------------------------------------------- decimal numbers
RECURSIVE Pow10(_)
Pow10(k) == IF k <= 0 THEN 1 ELSE 10 * Pow10(k - 1)

RECURSIVE Normalize(_)
Normalize(d) ==
    IF d.m = 0 THEN [m |-> 0, e |-> 0]
    ELSE IF d.m % 10 = 0 THEN Normalize([m |-> d.m \div 10, e |-> d.e + 1])
    ELSE d

Min2(a, b) == IF a <= b THEN a ELSE b

\* promoter_p1 + modifier_p1
FloatAdd(a, b) ==
    LET e == Min2(a.e, b.e)
    IN  Normalize([m |-> a.m * Pow10(a.e - e) + b.m * Pow10(b.e - e), e |-> e])

\* abs(combined)
FloatAbs(a) == [m |-> IF a.m < 0 THEN 0 - a.m ELSE a.m, e |-> a.e]

\* combined >= 0
FloatGeZero(a) == a.m >= 0

\* ------------------------------------------------- WGSL_FLOAT_RE / float()
Digits == <<"0", "1", "2", "3", "4", "5", "6", "7", "8", "9">>

IsDigit(c) == \E k \in 1..10 : Digits[k] = c

DigitVal(c) == (CHOOSE k \in 1..10 : Digits[k] = c) - 1

IsSign(c) == c \in {"-", "+"}

\* length of the longest run of digits of p that starts at position t
RECURSIVE DigitRun(_, _)
DigitRun(p, t) ==
    IF t <= Len(p) /\ IsDigit(p[t]) THEN 1 + DigitRun(p, t + 1) ELSE 0

\* Match of [-+]?\d*\.?\d+(?:[eE][-+]?\d+)? anchored at position s of p:
\* the position right after the match, or 0 when there is no match at s.
FloatMatchEnd(p, s) ==
    LET t    == IF s <= Len(p) /\ IsSign(p[s]) THEN s + 1 ELSE s
        n    == DigitRun(p, t)
        dot  == t + n
        f    == IF dot <= Len(p) /\ p[dot] = "." THEN DigitRun(p, dot + 1) ELSE 0
        u    == IF f > 0 THEN dot + 1 + f ELSE IF n > 0 THEN t + n ELSE 0
        v    == IF u + 1 <= Len(p) /\ IsSign(p[u + 1]) THEN u + 2 ELSE u + 1
        x    == IF u # 0 /\ u <= Len(p) /\ p[u] \in {"e", "E"} THEN DigitRun(p, v) ELSE 0
    IN  IF u = 0 THEN 0 ELSE IF x > 0 THEN v + x ELSE u

\* WGSL_FLOAT_RE.search(p): <<m.group(0)>> for the leftmost match, <<>> for None
FloatSearch(p) ==
    LET starts == {s \in 1..Len(p) : FloatMatchEnd(p, s) # 0}
    IN  IF starts = {} THEN <<>>
        ELSE LET s == CHOOSE a \in starts : \A b \in starts : a <= b
             IN  <<SubSeq(p, s, FloatMatchEnd(p, s) - 1)>>

RECURSIVE DigitsToInt(_)
DigitsToInt(ds) ==
    IF ds = <<>> THEN 0
    ELSE 10 * DigitsToInt(SubSeq(ds, 1, Len(ds) - 1)) + DigitVal(ds[Len(ds)])

\* float(text) for a text matched by WGSL_FLOAT_RE
ParseFloat(text) ==
    LET neg  == text[1] = "-"
        t    == IF IsSign(text[1]) THEN 2 ELSE 1
        n    == DigitRun(text, t)
        dot  == t + n
        f    == IF dot <= Len(text) /\ text[dot] = "." THEN DigitRun(text, dot + 1) ELSE 0
        u    == IF f > 0 THEN dot + 1 + f ELSE t + n
        hasE == u <= Len(text)
        eneg == hasE /\ text[u + 1] = "-"
        v    == IF hasE /\ IsSign(text[u + 1]) THEN u + 2 ELSE u + 1
        x    == IF hasE THEN DigitsToInt(SubSeq(text, v, Len(text))) ELSE 0
        mant == DigitsToInt(SubSeq(text, t, t + n - 1) \o SubSeq(text, dot + 1, dot + f))
    IN  Normalize([m |-> IF neg THEN 0 - mant ELSE mant,
                   e |-> (IF eneg THEN 0 - x ELSE x) - f])

\* _parse_vec4_components: the floats of the comma-separated components of
\* one vec4 group, or the failure of the first component without a literal
RECURSIVE parse_vec4_components(_)
parse_vec4_components(parts) ==
    IF parts = <<>> THEN [ok |-> TRUE, floats |-> <<>>]
    ELSE LET m == FloatSearch(Head(parts))
         IN  IF m = <<>> THEN [ok |-> FALSE, floats |-> <<>>]
             ELSE LET rest == parse_vec4_components(Tail(parts))
                  IN  IF rest.ok
                      THEN [ok |-> TRUE, floats |-> <<ParseFloat(m[1])>> \o rest.floats]
                      ELSE rest

\* ---------------------------------------------------------- shader lines
\* One line of shared.wgsl, as the parser reads it:
\*   blank   - lines[j].strip() is empty
\*   comment - the stripped line starts with "//"
\*   hdr     - <<[idx, code, name]>> when header_re matches the line, else <<>>
\*   marker  - the line contains "array<vec4<f32>,6>("
\*   groups  - what re.findall(r"vec4<f32>\(([^)]*)\)") returns, each group
\*             split at its commas into components (sequences of characters)
Line(blank, comment, hdr, marker, groups) ==
    [blank |-> blank, comment |-> comment, hdr |-> hdr, marker |-> marker, groups |-> groups]

BlankLine == Line(TRUE, FALSE, <<>>, FALSE, <<>>)

HeaderLine(idx, code, name, marker) ==
    Line(FALSE, TRUE, <<[idx |-> idx, code |-> code, name |-> name]>>, marker, <<>>)

CodeLine == Line(FALSE, FALSE, <<>>, FALSE, <<>>)

CommentLine == Line(FALSE, TRUE, <<>>, FALSE, <<>>)

DataLine(groups) == Line(FALSE, FALSE, <<>>, TRUE, groups)

\* components as written in the shader
TxtHalf == <<"+", ".", "5">>
TxtMinusHalf == <<"-", "5", "e", "-", "1">>
TxtZero == <<"0", ".", "0">>
TxtNoNumber == <<"x">>
TxtA == <<"0", ".", "1">>
TxtB == <<" ", "0", ".", "3">>
TxtC == <<"-", "0", ".", "7", "3">>
TxtD == <<"2", ".", "0", "f">>

OtherGroup == <<TxtD, TxtD, TxtD, TxtD>>

GoodData(w) == DataLine(<<OtherGroup, OtherGroup, OtherGroup, <<TxtA, TxtB, TxtC, w>>,
                          OtherGroup, OtherGroup>>)

FewGroupsData == DataLine(<<OtherGroup, OtherGroup, <<TxtA, TxtB, TxtC, TxtHalf>>>>)

ThreeComponentData == DataLine(<<OtherGroup, OtherGroup, OtherGroup, <<TxtA, TxtB, TxtHalf>>>>)

NoNumberData == DataLine(<<OtherGroup, OtherGroup, OtherGroup, <<TxtA, TxtNoNumber, TxtC, TxtHalf>>>>)

HdrValine == HeaderLine(17, "V", "Valine", FALSE)
HdrHistidine == HeaderLine(6, "H", "Histidine", FALSE)
HdrEnergyName == HeaderLine(25, "V", "Energy Sensor", FALSE)
HdrInline == HeaderLine(24, "H", "Mouth array<vec4<f32>,6>(", TRUE)

LinePool ==
    { BlankLine, CodeLine, CommentLine, HdrValine, HdrHistidine, HdrEnergyName, HdrInline,
      GoodData(TxtHalf), GoodData(TxtMinusHalf), GoodData(TxtZero),
      FewGroupsData, ThreeComponentData, NoNumberData }

\* whole records, to build shaders that define several table entries
BlockPool ==
    { <<h, d>> : h \in {HdrValine, HdrHistidine},
                 d \in {GoodData(TxtHalf), GoodData(TxtMinusHalf), GoodData(TxtZero)} }
    \cup { <<HdrInline, GoodData(TxtHalf)>>, <<HdrEnergyName, GoodData(TxtMinusHalf)>>,
           <<HdrValine>>, <<HdrHistidine, FewGroupsData>>,
           <<HdrHistidine, ThreeComponentData>>, <<HdrHistidine, NoNumberData>> }

RECURSIVE Flatten(_)
Flatten(bs) == IF bs = <<>> THEN <<>> ELSE Head(bs) \o Flatten(Tail(bs))

ShaderFiles ==
    UNION { [1..n -> LinePool] : n \in 0..MaxLines }
    \cup { Flatten(bs) : bs \in UNION { [1..n -> BlockPool] : n \in 0..MaxBlocks } }

\* -------------------------------------------------------------- the state
VARIABLES
    pc,         \* where the running script is
    lines,      \* parse_shared_wgsl_param1: the lines read from shared.wgsl
    i,          \* parse_shared_wgsl_param1: index of the main scan (1-based)
    entries,    \* parse_shared_wgsl_param1: the dict, in insertion order
    param1,     \* generate_table: <<>> until the parser returns, then <<mapping>>
    csvRead,    \* the rows csv.DictReader has yielded so far
    rows,       \* generate_table: the result list
    outFile,    \* docs/sensor_power_table.csv
    err,        \* <<>>, or <<the exception that ended the run>>
    scanLog,    \* history: for each line the main scan examined, whether it was a
                \* header and the data line the forward scan found for it (0: none)
    shaderText, \* update_shader_energy: shared.wgsl as a sequence of table records
    origText    \* history: shared.wgsl as update_shader_energy read it

vars == <<pc, lines, i, entries, param1, csvRead, rows, outFile, err, scanLog,
          shaderText, origText>>

NoIdx == -1

\* the file on disk before the run (absent, or left by an earlier run)
OldFile == [header |-> <<"old">>, rows |-> <<>>]

\* ------------------------------------------------ parse_shared_wgsl_param1
\* header_re.match(lines[k])
IsHeader(l) == l.hdr # <<>>

\* mutant of ScanForward: comment lines are skipped like any other line
RECURSIVE ScanForwardPastComments(_, _)
ScanForwardPastComments(ls, j) ==
    IF j > Len(ls) THEN 0
    ELSE IF ls[j].blank \/ ls[j].comment THEN ScanForwardPastComments(ls, j + 1)
    ELSE IF ls[j].marker THEN j
    ELSE ScanForwardPastComments(ls, j + 1)

\* the inner while loop: the index of data_line, or 0 when data_line is None
RECURSIVE ScanForward(_, _)
ScanForward(ls, j) ==
    IF j > Len(ls) THEN 0
    ELSE IF ls[j].blank THEN ScanForward(ls, j + 1)
    ELSE IF ls[j].comment THEN 0
    ELSE IF ls[j].marker THEN j
    ELSE ScanForward(ls, j + 1)

\* entries[idx] = e : a dict keeps the position of a key it already holds
RECURSIVE DictSet(_, _)
DictSet(d, e) ==
    IF d = <<>> THEN <<e>>
    ELSE IF Head(d).idx = e.idx THEN <<e>> \o Tail(d)
    ELSE <<Head(d)>> \o DictSet(Tail(d), e)

DictHas(d, idx) == \E k \in 1..Len(d) : d[k].idx = idx

DictGet(d, idx) == d[CHOOSE k \in 1..Len(d) : d[k].idx = idx]

Param1Entry(h, p) == [idx |-> h.idx, code |-> h.code, name |-> h.name, param1 |-> p]

\* where the main scan goes on after a header
NextScanIndex(k, j) == k + 1

\* lines 42-45: the line is no header
SkipLine ==
    /\ pc = "parse" /\ i <= Len(lines)
    /\ ~IsHeader(lines[i])
    /\ i' = i + 1
    /\ scanLog' = Append(scanLog, [line |-> i, header |-> FALSE, data |-> 0])
    /\ UNCHANGED <<pc, lines, entries, param1, csvRead, rows, outFile, err,
                   shaderText, origText>>

\* lines 47-69: a header for which the forward scan finds no data line
AbandonHeader ==
    /\ pc = "parse" /\ i <= Len(lines)
    /\ IsHeader(lines[i])
    /\ ScanForward(lines, i + 1) = 0
    /\ i' = NextScanIndex(i, 0)
    /\ scanLog' = Append(scanLog, [line |-> i, header |-> TRUE, data |-> 0])
    /\ UNCHANGED <<pc, lines, entries, param1, csvRead, rows, outFile, err,
                   shaderText, origText>>

\* the group param1 is read from: d[3], the 4th vec4 of the data line
Param1Group(vec4s) == vec4s[4]

\* mutant of Param1Component: d3[2], the z component
ThirdComponent(d3) == d3[3]

\* the component param1 is read from: d3[3], the 4th float of that group
Param1Component(d3) == d3[4]

\* lines 71-81: a header with a well-formed data line
StoreEntry ==
    /\ pc = "parse" /\ i <= Len(lines)
    /\ IsHeader(lines[i])
    /\ LET j == ScanForward(lines, i + 1) IN
       /\ j # 0
       /\ LET vec4s == lines[j].groups IN
          /\ Len(vec4s) >= 4
          /\ LET d3 == parse_vec4_components(Param1Group(vec4s)) IN
             /\ d3.ok
             /\ Len(d3.floats) = 4
             /\ entries' = DictSet(entries,
                                   Param1Entry(lines[i].hdr[1], Param1Component(d3.floats)))
       /\ i' = NextScanIndex(i, j)
       /\ scanLog' = Append(scanLog, [line |-> i, header |-> TRUE, data |-> j])
    /\ UNCHANGED <<pc, lines, param1, csvRead, rows, outFile, err, shaderText, origText>>

\* an uncaught ValueError: the run is over, nothing is returned or written.
\* site is the raise statement, idx the index its message names (or NoIdx)
Raise(site, idx) ==
    /\ pc' = "failed"
    /\ err' = <<[site |-> site, idx |-> idx]>>
    /\ UNCHANGED <<lines, i, entries, param1, rows, outFile, shaderText, origText>>

\* mutant of RaiseRowFormat: the short data line is passed over in silence
SkipShortRow ==
    /\ pc = "parse" /\ i <= Len(lines)
    /\ IsHeader(lines[i])
    /\ LET j == ScanForward(lines, i + 1) IN
       /\ j # 0
       /\ Len(lines[j].groups) < 4
       /\ scanLog' = Append(scanLog, [line |-> i, header |-> TRUE, data |-> j])
    /\ i' = i + 1
    /\ UNCHANGED <<pc, lines, entries, param1, csvRead, rows, outFile, err,
                   shaderText, origText>>

\* lines 72-73: fewer than 4 vec4 groups on the data line
RaiseRowFormat ==
    /\ pc = "parse" /\ i <= Len(lines)
    /\ IsHeader(lines[i])
    /\ LET j == ScanForward(lines, i + 1) IN
       /\ j # 0
       /\ Len(lines[j].groups) < 4
       /\ scanLog' = Append(scanLog, [line |-> i, header |-> TRUE, data |-> j])
    /\ Raise("row_format", lines[i].hdr[1].idx)
    /\ UNCHANGED csvRead

\* lines 24-26: a component of the 4th group holds no float
RaiseNoFloat ==
    /\ pc = "parse" /\ i <= Len(lines)
    /\ IsHeader(lines[i])
    /\ LET j == ScanForward(lines, i + 1) IN
       /\ j # 0
       /\ Len(lines[j].groups) >= 4
       /\ ~parse_vec4_components(Param1Group(lines[j].groups)).ok
       /\ scanLog' = Append(scanLog, [line |-> i, header |-> TRUE, data |-> j])
    /\ Raise("vec4_component", NoIdx)
    /\ UNCHANGED csvRead

\* lines 77-78: the 4th group does not have 4 components
RaiseComponentCount ==
    /\ pc = "parse" /\ i <= Len(lines)
    /\ IsHeader(lines[i])
    /\ LET j == ScanForward(lines, i + 1) IN
       /\ j # 0
       /\ Len(lines[j].groups) >= 4
       /\ LET d3 == parse_vec4_components(Param1Group(lines[j].groups)) IN
          d3.ok /\ Len(d3.floats) # 4
       /\ scanLog' = Append(scanLog, [line |-> i, header |-> TRUE, data |-> j])
    /\ Raise("component_count", lines[i].hdr[1].idx)
    /\ UNCHANGED csvRead

\* line 83 and line 108: the parser returns its dict to generate_table
ParseReturn ==
    /\ pc = "parse" /\ i > Len(lines)
    /\ pc' = "join"
    /\ param1' = <<entries>>
    /\ lines' = <<>> /\ i' = 0 /\ entries' = <<>> /\ scanLog' = <<>>
    /\ UNCHANGED <<csvRead, rows, outFile, err, shaderText, origText>>

\* ------------------------------------------------------- Python values
\* A dict value of a result row is None, a float, an int or a str.
PyNone == <<>>
PyFloat(d) == <<"float", d.m, d.e>>
PyInt(n) == <<"int", n>>
PyStr(t) == <<"str", t>>

IsPyInt(v) == v # <<>> /\ v[1] = "int"

FloatOfPy(v) == [m |-> v[2], e |-> v[3]]

\* ---------------------------------------------------------- generate_table
SensorNames ==
    { "Alpha Sensor", "Beta Sensor", "Energy Sensor", "Agent Alpha Sensor",
      "Agent Beta Sensor", "Trail Energy Sensor (alpha)", "Trail Energy Sensor (beta)",
      "Alpha Magnitude Sensor", "Alpha Magnitude Sensor (var)",
      "Beta Magnitude Sensor", "Beta Magnitude Sensor (var)" }

SENSOR_NAME_TO_TYPE_ID(name) ==
    CASE name = "Alpha Sensor"                 -> 22
      [] name = "Beta Sensor"                  -> 23
      [] name = "Energy Sensor"                -> 24
      [] name = "Agent Alpha Sensor"           -> 34
      [] name = "Agent Beta Sensor"            -> 35
      [] name = "Trail Energy Sensor (alpha)"  -> 37
      [] name = "Trail Energy Sensor (beta)"   -> 37
      [] name = "Alpha Magnitude Sensor"       -> 38
      [] name = "Alpha Magnitude Sensor (var)" -> 39
      [] name = "Beta Magnitude Sensor"        -> 40
      [] name = "Beta Magnitude Sensor (var)"  -> 41

\* _sensor_kind_from_name: <<name>> for a known sensor kind, <<>> for None
sensor_kind_from_name(organ_name) ==
    IF organ_name \in SensorNames THEN <<organ_name>> ELSE <<>>

promoters ==
    << [col |-> "V_Valine", code |-> "V"], [col |-> "M_Methionine", code |-> "M"],
       [col |-> "H_Histidine", code |-> "H"], [col |-> "Q_Glutamine", code |-> "Q"] >>

\* amino_param1_by_code.get(code): the dict comprehension keeps, for each code,
\* the last entry in insertion order whose idx is within 0..19
amino_param1_by_code(p1, code) ==
    LET hits == {k \in 1..Len(p1) : p1[k].code = code /\ 0 <= p1[k].idx /\ p1[k].idx <= 19}
    IN  IF hits = {} THEN PyNone
        ELSE PyFloat(p1[CHOOSE k \in hits : \A h \in hits : h <= k].param1)

uses_param1_gain(organ_type_id) == organ_type_id \in {22, 23, 38, 39, 40, 41}

\* line 147: are combined, gain_abs and polarity computed
GainDerived(organ_type_id, promoter_p1, modifier_p1) ==
    uses_param1_gain(organ_type_id) /\ promoter_p1 # PyNone /\ modifier_p1 # PyNone

\* mutant of Polarity: a sum of zero counts as negative
PolarityStrict(combined) == IF combined.m > 0 THEN 1 ELSE -1

\* line 150
Polarity(combined) == IF FloatGeZero(combined) THEN 1 ELSE -1

EnvDyeNote == "env_dye_sensor (gain=abs(p+m), sign=sign(p+m))"
NonParam1Note == "non_param1_sensor (gain not derived from promoter/modifier param1 in shader)"
EnergyNote == "energy_sensor (uses energy->signal mapping; not promoter/modifier param1 gain)"

\* mutant of NoteOf: the note follows whether the gain was derived
NoteByDerived(organ_type_id, promoter_p1, modifier_p1) ==
    IF GainDerived(organ_type_id, promoter_p1, modifier_p1) THEN EnvDyeNote ELSE NonParam1Note

\* lines 164-168
NoteOf(organ_type_id, promoter_p1, modifier_p1) ==
    IF uses_param1_gain(organ_type_id) THEN EnvDyeNote ELSE NonParam1Note

\* lines 135-170: the row appended for one classified cell
JoinedRow(sensor_kind, promoter_code, modifier_idx, modifier_code, p1) ==
    LET organ_type_id == SENSOR_NAME_TO_TYPE_ID(sensor_kind)
        promoter_p1   == amino_param1_by_code(p1, promoter_code)
        modifier_p1   == amino_param1_by_code(p1, modifier_code)
        derived       == GainDerived(organ_type_id, promoter_p1, modifier_p1)
        combined      == FloatAdd(FloatOfPy(promoter_p1), FloatOfPy(modifier_p1))
    IN  [ sensor_kind     |-> sensor_kind,
          organ_type_id   |-> organ_type_id,
          promoter_code   |-> promoter_code,
          promoter_param1 |-> promoter_p1,
          modifier_index  |-> PyInt(modifier_idx),
          modifier_code   |-> modifier_code,
          modifier_param1 |-> modifier_p1,
          combined_param1 |-> IF derived THEN PyFloat(combined) ELSE PyNone,
          gain_abs        |-> IF derived THEN PyFloat(FloatAbs(combined)) ELSE PyNone,
          polarity        |-> IF derived THEN PyInt(Polarity(combined)) ELSE PyNone,
          notes           |-> NoteOf(organ_type_id, promoter_p1, modifier_p1) ]

\* (r.get(promoter_col) or "").strip(): a cell is <<>> (no value) or <<text>>
CellText(cell) == IF cell = <<>> THEN "" ELSE cell[1]

\* mutant of RowsOfFrom: a classified cell whose lookups are both missing
\* appends no row
RECURSIVE RowsOfFromSkippingMissing(_, _, _, _)
RowsOfFromSkippingMissing(r, modifier_idx, p1, k) ==
    IF k > Len(promoters) THEN <<>>
    ELSE LET sensor_kind == sensor_kind_from_name(CellText(r[promoters[k].col]))
             rest        == RowsOfFromSkippingMissing(r, modifier_idx, p1, k + 1)
         IN  IF sensor_kind = <<>> THEN rest
             ELSE IF /\ amino_param1_by_code(p1, promoters[k].code) = PyNone
                     /\ amino_param1_by_code(p1, r.Modifier_AA) = PyNone THEN rest
             ELSE <<JoinedRow(sensor_kind[1], promoters[k].code, modifier_idx,
                              r.Modifier_AA, p1)>> \o rest

\* lines 129-170: the rows one CSV row appends, promoter column by column
RECURSIVE RowsOfFrom(_, _, _, _)
RowsOfFrom(r, modifier_idx, p1, k) ==
    IF k > Len(promoters) THEN <<>>
    ELSE LET sensor_kind == sensor_kind_from_name(CellText(r[promoters[k].col]))
             rest        == RowsOfFrom(r, modifier_idx, p1, k + 1)
         IN  IF sensor_kind = <<>> THEN rest
             ELSE <<JoinedRow(sensor_kind[1], promoters[k].code, modifier_idx,
                              r.Modifier_AA, p1)>> \o rest

\* str.strip(), for the blank the model's cells use
RECURSIVE Strip(_)
Strip(t) ==
    IF t = <<>> THEN t
    ELSE IF Head(t) = " " THEN Strip(Tail(t))
    ELSE IF t[Len(t)] = " " THEN Strip(SubSeq(t, 1, Len(t) - 1))
    ELSE t

\* int(text): <<n>>, or <<>> where Python raises ValueError
IntOf(text) ==
    LET t == IF text # <<>> /\ IsSign(text[1]) THEN 2 ELSE 1
    IN  IF t <= Len(text) /\ DigitRun(text, t) = Len(text) - t + 1
        THEN <<(IF text[1] = "-" THEN -1 ELSE 1) * DigitsToInt(SubSeq(text, t, Len(text)))>>
        ELSE <<>>

\* rows of config/ORGAN_TABLE.csv; a row shorter than the header leaves its last
\* cells without a value
CsvRow(modifier, aa, v, m, h, q) ==
    [ Modifier |-> modifier, Modifier_AA |-> aa,
      V_Valine |-> v, M_Methionine |-> m, H_Histidine |-> h, Q_Glutamine |-> q ]

RowPool ==
    { CsvRow(<<"5">>, "H", <<"Alpha Sensor">>, <<"Beta Sensor">>, <<"Agent Alpha Sensor">>, <<>>),
      CsvRow(<<" ", "3", " ">>, "V", <<"Alpha Sensor">>, <<"">>, <<"Energy Sensor">>, <<"Mouth">>),
      CsvRow(<<"1", "0", "0", "0">>, "Z", <<"Alpha Sensor">>, <<"alpha sensor">>, <<"Energy Sensor">>,
             <<"Beta Magnitude Sensor (var)">>),
      CsvRow(<<"-", "1">>, "H", <<"Trail Energy Sensor (beta)">>, <<"">>, <<"Alpha Sensor">>, <<>>),
      CsvRow(<<"7">>, "V", <<"">>, <<"">>, <<"Poison Resistance">>, <<>>),
      CsvRow(<<"x">>, "H", <<"Alpha Sensor">>, <<"">>, <<"">>, <<"">>),
      CsvRow(<<>>, "V", <<"">>, <<"">>, <<"Alpha Sensor">>, <<"">>) }

\* lines 124-170: one CSV row is read and joined
JoinRow ==
    /\ pc = "join" /\ Len(csvRead) < MaxCsvRows
    /\ \E r \in RowPool :
          LET modifier_idx == IntOf(Strip(r.Modifier)) IN
          /\ modifier_idx # <<>>
          /\ csvRead' = Append(csvRead, r)
          /\ rows' = rows \o RowsOfFrom(r, modifier_idx[1], param1[1], 1)
    /\ UNCHANGED <<pc, lines, i, entries, param1, outFile, err, scanLog, shaderText, origText>>

\* mutant of RaiseModifier: the output file is open during the join and holds
\* the rows joined before the error
RaiseModifierAfterPartialWrite ==
    /\ pc = "join" /\ Len(csvRead) < MaxCsvRows
    /\ \E r \in RowPool :
          /\ IntOf(Strip(r.Modifier)) = <<>>
          /\ csvRead' = Append(csvRead, r)
    /\ pc' = "failed"
    /\ err' = <<[site |-> "modifier_int", idx |-> NoIdx]>>
    /\ outFile' = [header |-> <<"sensor_kind">>, rows |-> rows]
    /\ UNCHANGED <<lines, i, entries, param1, rows, scanLog, shaderText, origText>>

\* line 125: the Modifier cell is no integer
RaiseModifier ==
    /\ pc = "join" /\ Len(csvRead) < MaxCsvRows
    /\ \E r \in RowPool :
          /\ IntOf(Strip(r.Modifier)) = <<>>
          /\ csvRead' = Append(csvRead, r)
    /\ Raise("modifier_int", NoIdx)
    /\ UNCHANGED scanLog

\* lines 174-189: the row for the Energy Sensor, which no CSV row produces
EnergyRow ==
    [ sensor_kind     |-> "Energy Sensor",
      organ_type_id   |-> 24,
      promoter_code   |-> "",
      promoter_param1 |-> PyStr(""),
      modifier_index  |-> PyStr(""),
      modifier_code   |-> "",
      modifier_param1 |-> PyStr(""),
      combined_param1 |-> PyStr(""),
      gain_abs        |-> PyStr(""),
      polarity        |-> PyStr(""),
      notes           |-> EnergyNote ]

\* mutant of HasEnergyEntry: the record is looked up by its name
HasEnergyEntryByName(p1) == \E k \in 1..Len(p1) : p1[k].name = "Energy Sensor"

\* line 174: `if 24 in param1`
HasEnergyEntry(p1) == DictHas(p1, 24)

\* Python's order of the strings that occur as sensor kind or promoter code
StringOrder ==
    << "", "Agent Alpha Sensor", "Agent Beta Sensor", "Alpha Magnitude Sensor",
       "Alpha Magnitude Sensor (var)", "Alpha Sensor", "Beta Magnitude Sensor",
       "Beta Magnitude Sensor (var)", "Beta Sensor", "Energy Sensor", "H", "M", "Q",
       "Trail Energy Sensor (alpha)", "Trail Energy Sensor (beta)", "V" >>

StrRank(t) == CHOOSE k \in 1..Len(StringOrder) : StringOrder[k] = t

\* mutant of sort_key: the modifier index is left out of the key
sort_key_without_index(d) == <<StrRank(d.sensor_kind), StrRank(d.promoter_code), 0>>

\* lines 192-197
sort_key(d) ==
    << StrRank(d.sensor_kind),
       StrRank(d.promoter_code),
       IF IsPyInt(d.modifier_index) THEN d.modifier_index[2] ELSE 999 >>

\* a < b for two keys, as Python compares tuples
TupleLess(a, b) ==
    \/ a[1] < b[1]
    \/ a[1] = b[1] /\ a[2] < b[2]
    \/ a[1] = b[1] /\ a[2] = b[2] /\ a[3] < b[3]

\* list.sort(key=sort_key) is stable: d goes behind the rows that do not sort after it
RECURSIVE InsertSorted(_, _)
InsertSorted(sorted, d) ==
    IF sorted = <<>> THEN <<d>>
    ELSE IF TupleLess(sort_key(d), sort_key(Head(sorted))) THEN <<d>> \o sorted
    ELSE <<Head(sorted)>> \o InsertSorted(Tail(sorted), d)

RECURSIVE SortRows(_)
SortRows(rs) ==
    IF rs = <<>> THEN <<>>
    ELSE InsertSorted(SortRows(SubSeq(rs, 1, Len(rs) - 1)), rs[Len(rs)])

\* lines 172-200: the reader is exhausted; the Energy Sensor row, the sort, the return
FinishTable ==
    /\ pc = "join"
    /\ rows' = SortRows(IF HasEnergyEntry(param1[1]) THEN Append(rows, EnergyRow) ELSE rows)
    /\ pc' = "write"
    /\ UNCHANGED <<lines, i, entries, param1, csvRead, outFile, err, scanLog,
                   shaderText, origText>>

\* --------------------------------------------------------------------- main
fieldnames ==
    << "sensor_kind", "organ_type_id", "promoter_code", "promoter_param1",
       "modifier_index", "modifier_code", "modifier_param1", "combined_param1",
       "gain_abs", "polarity", "notes" >>

\* csv.DictWriter writes None as the empty field and any other value by str()
CsvField(v) == IF v = PyNone THEN PyStr("") ELSE v

CsvLine(d) ==
    [ d EXCEPT !.promoter_param1 = CsvField(@), !.modifier_param1 = CsvField(@),
               !.combined_param1 = CsvField(@), !.gain_abs = CsvField(@),
               !.polarity = CsvField(@) ]

\* lines 211-230: the output file is opened, the header and the rows are written
WriteOutput ==
    /\ pc = "write"
    /\ outFile' = [header |-> fieldnames, rows |-> [k \in 1..Len(rows) |-> CsvLine(rows[k])]]
    /\ pc' = "done"
    /\ UNCHANGED <<lines, i, entries, param1, csvRead, rows, err, scanLog,
                   shaderText, origText>>

\* ----------------------------------------------------- update_shader_energy
\* shared.wgsl as the pattern of update_shader_energy.py reads it: the table
\* records in file order. Of a record the pattern reads
\*   idx      - the number in the header comment (\d+)
\*   sameLine - does "array<vec4<f32>,6>(" stand on the header's line ('.' in
\*              ".*?" matches no line break)
\*   w        - the text of the last component of the third vec4
TableRecord(idx, sameLine, w) == [idx |-> idx, sameLine |-> sameLine, w |-> w]

RecordPool ==
    { TableRecord(idx, sl, w) : idx \in {0, 1, 19, 20}, sl \in BOOLEAN,
                                w \in {"0.0", "1.0", "0.5"} }

\* line 8 (the list is built and never used)
amino_acids_to_update == 1..19

\* line 12: does the pattern match at this record
PatternMatches(rec) == rec.sameLine /\ rec.w = "0.0"

\* lines 14-15
replace_func(rec) == [rec EXCEPT !.w = "1.0"]

\* line 18: re.sub(pattern, replace_func, content)
re_sub(content) ==
    [k \in 1..Len(content) |->
        IF PatternMatches(content[k]) THEN replace_func(content[k]) ELSE content[k]]

\* lines 4-22: read the file, substitute, write it back
PatchShader ==
    /\ pc = "patch"
    /\ shaderText' = re_sub(shaderText)
    /\ pc' = "patched"
    /\ UNCHANGED <<lines, i, entries, param1, csvRead, rows, outFile, err, scanLog, origText>>

\* ------------------------------------------------------------ specification
InitGenerate ==
    /\ pc = "parse"
    /\ lines \in ShaderFiles
    /\ i = 1
    /\ shaderText = <<>> /\ origText = <<>>

InitPatch ==
    /\ pc = "patch"
    /\ lines = <<>>
    /\ i = 0
    /\ shaderText \in UNION { [1..n -> RecordPool] : n \in 0..MaxPatchRecords }
    /\ origText = shaderText

Init ==
    /\ entries = <<>> /\ param1 = <<>> /\ csvRead = <<>> /\ rows = <<>>
    /\ outFile = OldFile /\ err = <<>> /\ scanLog = <<>>
    /\ (InitGenerate \/ InitPatch)

Next ==
    \/ SkipLine
    \/ AbandonHeader
    \/ StoreEntry
    \/ RaiseRowFormat
    \/ RaiseNoFloat
    \/ RaiseComponentCount
    \/ ParseReturn
    \/ JoinRow
    \/ RaiseModifier
    \/ FinishTable
    \/ WriteOutput
    \/ PatchShader

Spec == Init /\ [][Next]_vars

\* ================================================================== claims
\* ---- reading the shader file, stated without the parser's loops
InParse == pc = "parse" \/ (pc = "failed" /\ err[1].site # "modifier_int")

\* the data line of the header at line k: the first line after k that is not
\* blank and either starts with "//" or holds the array marker, if that line
\* is not a comment; 0 when there is none
DataLineOf(ls, k) ==
    LET stops == {j \in (k + 1)..Len(ls) : ~ls[j].blank /\ (ls[j].comment \/ ls[j].marker)}
    IN  IF stops = {} THEN 0
        ELSE LET j == CHOOSE a \in stops : \A b \in stops : a <= b
             IN  IF ls[j].comment THEN 0 ELSE j

\* the numbers the components of the model's data lines denote
Written(txt) ==
    CASE txt = TxtHalf      -> [m |-> 5, e |-> -1]
      [] txt = TxtMinusHalf -> [m |-> -5, e |-> -1]
      [] txt = TxtZero      -> [m |-> 0, e |-> 0]
      [] txt = TxtA         -> [m |-> 1, e |-> -1]
      [] txt = TxtB         -> [m |-> 3, e |-> -1]
      [] txt = TxtC         -> [m |-> -73, e |-> -2]
      [] txt = TxtD         -> [m |-> 2, e |-> 0]

NumericTexts == {TxtHalf, TxtMinusHalf, TxtZero, TxtA, TxtB, TxtC, TxtD}

FewGroups(l) == Len(l.groups) < 4

NonNumericComponent(l) ==
    ~FewGroups(l) /\ \E c \in 1..Len(l.groups[4]) : l.groups[4][c] \notin NumericTexts

WrongComponentCount(l) ==
    ~FewGroups(l) /\ ~NonNumericComponent(l) /\ Len(l.groups[4]) # 4

WellFormedData(l) == ~FewGroups(l) /\ ~NonNumericComponent(l) /\ ~WrongComponentCount(l)

HeaderEvents == {e \in 1..Len(scanLog) : scanLog[e].header}

HdrOf(e) == lines[scanLog[e].line].hdr[1]

\* the event on which the parse aborted, if it did
Aborting(e) == pc = "failed" /\ e = Len(scanLog)

\* C3: a header followed by a data line with at least 4 vec4 groups, the 4th
\* of 4 numeric components, leaves under its index a record with the header's
\* code and name whose param1 is the number written as the 4th component of
\* the 4th group (until a later header with the same index replaces it).
C3_Param1IsFourthOfFourth ==
    pc = "parse" =>
        \A e \in HeaderEvents :
            LET j == DataLineOf(lines, scanLog[e].line)
                h == HdrOf(e)
            IN  ( /\ j # 0
                  /\ WellFormedData(lines[j])
                  /\ ~\E e2 \in HeaderEvents :
                        e2 > e /\ HdrOf(e2).idx = h.idx /\ DataLineOf(lines, scanLog[e2].line) # 0 )
                => /\ DictHas(entries, h.idx)
                   /\ DictGet(entries, h.idx) =
                        [idx |-> h.idx, code |-> h.code, name |-> h.name,
                         param1 |-> Written(lines[j].groups[4][4])]

\* C3 witness: the scan is over and holds Valine with param1 -0.5 (written
\* "-5e-1") next to a second record.
C3_Witness ==
    /\ pc = "parse" /\ i > Len(lines)
    /\ DictHas(entries, 17) /\ DictGet(entries, 17).param1 = [m |-> -5, e |-> -1]
    /\ DictHas(entries, 6)

\* C5 as claimed: a header paired with a malformed data line aborts the parse
\* with an error that names the header's index, and no mapping is returned.
C5_ErrorAlwaysNamesIndex ==
    InParse =>
        \A e \in HeaderEvents :
            LET j == DataLineOf(lines, scanLog[e].line) IN
            (j # 0 /\ ~WellFormedData(lines[j]))
                => /\ pc = "failed"
                   /\ param1 = <<>>
                   /\ err[1].idx = HdrOf(e).idx

\* C5 amended: a header paired with a malformed data line aborts the parse and
\* no mapping is returned; the error names the header's index when the line
\* has fewer than 4 groups or its 4th group has a number of components other
\* than 4, all numeric; when a component of the 4th group holds no number the
\* error is the float extractor's, which names no index.
C5_AbortNamesIndexUnlessNoFloat ==
    InParse =>
        \A e \in HeaderEvents :
            LET j == DataLineOf(lines, scanLog[e].line) IN
            (j # 0 /\ ~WellFormedData(lines[j]))
                => /\ pc = "failed"
                   /\ param1 = <<>>
                   /\ Aborting(e)
                   /\ (FewGroups(lines[j]) =>
                          err[1] = [site |-> "row_format", idx |-> HdrOf(e).idx])
                   /\ (WrongComponentCount(lines[j]) =>
                          err[1] = [site |-> "component_count", idx |-> HdrOf(e).idx])
                   /\ (NonNumericComponent(lines[j]) =>
                          err[1] = [site |-> "vec4_component", idx |-> NoIdx])

\* C5 witness: the parse aborted on a component without a number after it had
\* stored a record.
C5_Witness ==
    /\ pc = "failed" /\ err[1].site = "vec4_component"
    /\ entries # <<>> /\ param1 = <<>>

\* C9: the main scan examines every line once and in order; a header has a
\* data line exactly when the first non-blank line after it that is a comment
\* or holds the array marker is not a comment, and that line is its data line;
\* the dict holds a record for exactly the indices of the headers that have a
\* data line (the parse aborts on a header whose data line is malformed, C5);
\* no data line belongs to two headers.
C9_ScanPolicy ==
    InParse =>
        /\ Len(scanLog) = (IF pc = "failed" THEN i ELSE i - 1)
        /\ \A e \in 1..Len(scanLog) :
              /\ scanLog[e].line = e
              /\ scanLog[e].header = IsHeader(lines[e])
              /\ scanLog[e].data = (IF IsHeader(lines[e]) THEN DataLineOf(lines, e) ELSE 0)
        /\ {entries[k].idx : k \in 1..Len(entries)} =
              {HdrOf(e).idx : e \in {x \in HeaderEvents : scanLog[x].data # 0 /\ ~Aborting(x)}}
        /\ \A e1, e2 \in HeaderEvents :
              (e1 # e2 /\ scanLog[e1].data # 0) => scanLog[e1].data # scanLog[e2].data

\* C9 witness: a header was abandoned, the header on the very next line found
\* its data on the line after it, and its record is stored.
C9_Witness ==
    /\ pc = "parse" /\ Len(scanLog) >= 2
    /\ scanLog[1].header /\ scanLog[1].data = 0
    /\ scanLog[2].header /\ scanLog[2].data = 3
    /\ DictHas(entries, HdrOf(2).idx)

\* ---- the result rows, stated without the join's code
\* the rows a CSV row produced (the Energy Sensor row of lines 174-189 has no
\* integer modifier index)
CsvRowIndices == {k \in 1..Len(rows) : IsPyInt(rows[k].modifier_index)}

GainOrgans == {22, 23, 38, 39, 40, 41}

LookupMissing(d) == d.promoter_param1 = PyNone \/ d.modifier_param1 = PyNone

DerivedEmpty(d) ==
    d.combined_param1 = PyNone /\ d.gain_abs = PyNone /\ d.polarity = PyNone

\* C1 as claimed: a row whose organ type is outside {22,23,38,39,40,41}, or
\* with a missing promoter or modifier param1, has its three derived fields
\* empty and carries the "non_param1_sensor" note.
C1_MissingLookupGetsNonParam1Note ==
    \A k \in CsvRowIndices :
        (rows[k].organ_type_id \notin GainOrgans \/ LookupMissing(rows[k]))
            => DerivedEmpty(rows[k]) /\ rows[k].notes = NonParam1Note

\* C1 amended: such a row has its three derived fields empty; its note is the
\* "non_param1_sensor" string exactly when its organ type is outside
\* {22,23,38,39,40,41}, and the "env_dye_sensor" string otherwise, also when
\* a param1 lookup is missing.
C1_NoteFollowsOrganType ==
    \A k \in CsvRowIndices :
        (rows[k].organ_type_id \notin GainOrgans \/ LookupMissing(rows[k]))
            => /\ DerivedEmpty(rows[k])
               /\ rows[k].organ_type_id \notin GainOrgans => rows[k].notes = NonParam1Note
               /\ rows[k].organ_type_id \in GainOrgans => rows[k].notes = EnvDyeNote

\* C1 witness: an Alpha Sensor row (type 22) whose promoter param1 is present
\* and whose modifier param1 is missing, next to a row of a type outside the list.
C1_Witness ==
    /\ \E k \in CsvRowIndices :
          /\ rows[k].organ_type_id = 22
          /\ rows[k].promoter_param1 # PyNone /\ rows[k].modifier_param1 = PyNone
    /\ \E k \in CsvRowIndices :
          rows[k].organ_type_id = 34 /\ ~LookupMissing(rows[k])

\* a float of a row in hundredths (the shader values of the model have at
\* most two decimals)
Hundredths(v) == v[2] * Pow10(v[3] + 2)

\* C4: a row whose organ type is in {22,23,38,39,40,41} and whose promoter and
\* modifier param1 are both present (zero included) has combined_param1 =
\* promoter_param1 + modifier_param1, gain_abs = |combined_param1|, and
\* polarity 1 when the sum is >= 0, -1 when it is negative.
C4_GainAndPolarity ==
    \A k \in CsvRowIndices :
        (rows[k].organ_type_id \in GainOrgans /\ ~LookupMissing(rows[k]))
            => LET sum == Hundredths(rows[k].promoter_param1)
                          + Hundredths(rows[k].modifier_param1)
               IN  /\ rows[k].combined_param1 # PyNone /\ rows[k].combined_param1[1] = "float"
                   /\ Hundredths(rows[k].combined_param1) = sum
                   /\ rows[k].gain_abs # PyNone /\ rows[k].gain_abs[1] = "float"
                   /\ Hundredths(rows[k].gain_abs) = (IF sum < 0 THEN 0 - sum ELSE sum)
                   /\ rows[k].polarity = PyInt(IF sum >= 0 THEN 1 ELSE -1)

\* C4 witness: one row has a promoter param1 of 0, a modifier param1 of -0.5
\* and polarity -1, another has a sum of exactly 0 and polarity 1.
C4_Witness ==
    /\ \E k \in CsvRowIndices :
          /\ rows[k].promoter_param1 = PyFloat([m |-> 0, e |-> 0])
          /\ rows[k].modifier_param1 = PyFloat([m |-> -5, e |-> -1])
          /\ rows[k].gain_abs = PyFloat([m |-> 5, e |-> -1])
          /\ rows[k].polarity = PyInt(-1)
    /\ \E k \in CsvRowIndices :
          /\ rows[k].combined_param1 = PyFloat([m |-> 0, e |-> 0])
          /\ rows[k].polarity = PyInt(1)

Returned == pc \in {"write", "done"}

JoinFieldsEmpty(d) ==
    /\ d.promoter_code = "" /\ d.promoter_param1 = PyStr("") /\ d.modifier_index = PyStr("")
    /\ d.modifier_code = "" /\ d.modifier_param1 = PyStr("") /\ d.combined_param1 = PyStr("")
    /\ d.gain_abs = PyStr("") /\ d.polarity = PyStr("")

EnergyRowIndices == {k \in 1..Len(rows) : rows[k].sensor_kind = "Energy Sensor"}

\* C2 as claimed: when the parsed table holds a record named "Energy Sensor",
\* the result has exactly one row of sensor kind "Energy Sensor", and its join
\* fields are all empty.
C2_EnergyRowByName ==
    (Returned /\ \E e \in 1..Len(param1[1]) : param1[1][e].name = "Energy Sensor")
        => /\ Cardinality(EnergyRowIndices) = 1
           /\ \A k \in EnergyRowIndices : JoinFieldsEmpty(rows[k])

\* C2 amended: the result has exactly one row of sensor kind "Energy Sensor"
\* with all join fields empty when the parsed table holds index 24, whatever
\* the name of that record, and none otherwise; every other row of that kind
\* comes from a CSV cell named "Energy Sensor" and has its promoter code and
\* modifier index filled in.
C2_EnergyRowByIndex ==
    Returned =>
        /\ Cardinality({k \in EnergyRowIndices : JoinFieldsEmpty(rows[k])}) =
              (IF \E e \in 1..Len(param1[1]) : param1[1][e].idx = 24 THEN 1 ELSE 0)
        /\ \A k \in EnergyRowIndices :
              \/ JoinFieldsEmpty(rows[k])
              \/ /\ k \in CsvRowIndices
                 /\ rows[k].promoter_code \in {"V", "M", "H", "Q"}
                 /\ \E c \in 1..Len(csvRead) : \E q \in 1..Len(promoters) :
                       /\ CellText(csvRead[c][promoters[q].col]) = "Energy Sensor"
                       /\ promoters[q].code = rows[k].promoter_code

\* C2 witness: the table holds index 24 under another name, no record is
\* named "Energy Sensor", and the result has the row with empty join fields
\* next to an Energy Sensor row that came from the CSV.
C2_Witness ==
    /\ pc = "done"
    /\ \E e \in 1..Len(param1[1]) : param1[1][e].idx = 24
    /\ \A e \in 1..Len(param1[1]) : param1[1][e].name # "Energy Sensor"
    /\ \E k \in EnergyRowIndices : JoinFieldsEmpty(rows[k])
    /\ \E k \in EnergyRowIndices : k \in CsvRowIndices

\* C6: the output file is written only by a run that parsed the shader and
\* joined the whole CSV without error: a failed run leaves the file as it was,
\* and the file of a finished run holds the header and every result row.
C6_AllOrNothing ==
    /\ pc = "failed" => outFile = OldFile
    /\ outFile # OldFile => pc = "done" /\ err = <<>>
    /\ pc = "done" =>
          /\ outFile.header = fieldnames
          /\ Len(outFile.rows) = Len(rows)
          /\ \A k \in 1..Len(rows) :
                /\ outFile.rows[k].sensor_kind = rows[k].sensor_kind
                /\ outFile.rows[k].promoter_code = rows[k].promoter_code
                /\ outFile.rows[k].modifier_index = rows[k].modifier_index
                /\ outFile.rows[k].notes = rows[k].notes
                /\ outFile.rows[k].gain_abs =
                      (IF rows[k].gain_abs = PyNone THEN PyStr("") ELSE rows[k].gain_abs)

\* C6 witness: the Modifier cell of the second CSV row is no integer; the run
\* failed after the first row was joined and the file is untouched.
C6_Witness ==
    /\ pc = "failed" /\ err[1].site = "modifier_int"
    /\ Len(csvRead) = 2 /\ rows # <<>>
    /\ outFile = OldFile

ClassifiedCells ==
    {c \in (1..Len(csvRead)) \X (1..Len(promoters)) :
        CellText(csvRead[c[1]][promoters[c[2]].col]) \in SensorNames}

\* C7: the result has one row for each (CSV row, promoter column) whose cell
\* names a known sensor kind, whether or not its param1 lookups succeed, no
\* row for any other cell, and one more row when the Energy Sensor row is added.
C7_RowCount ==
    /\ pc = "join" => Len(rows) = Cardinality(ClassifiedCells)
    /\ Returned =>
          Len(rows) = Cardinality(ClassifiedCells)
                      + (IF \E k \in 1..Len(rows) : JoinFieldsEmpty(rows[k]) THEN 1 ELSE 0)

\* C7 witness: a finished run whose CSV held cells of unknown names and a
\* classified cell with both lookups missing, with the Energy Sensor row added.
C7_Witness ==
    /\ pc = "done" /\ Len(csvRead) = 2
    /\ Cardinality(ClassifiedCells) < 2 * Len(promoters)
    /\ \E k \in CsvRowIndices :
          rows[k].promoter_param1 = PyNone /\ rows[k].modifier_param1 = PyNone
    /\ Len(rows) = Cardinality(ClassifiedCells) + 1

\* the modifier index of a row as the sort reads it
IndexKey(d) == IF IsPyInt(d.modifier_index) THEN d.modifier_index[2] ELSE 999

\* C8: the returned list is ascending by (sensor kind, promoter code as a
\* string, modifier index as an integer), and a row without an integer
\* modifier index stands behind every integer-index row of its sensor kind
\* and promoter code.
C8_Sorted ==
    Returned =>
        /\ \A k \in 1..(Len(rows) - 1) :
              LET a == rows[k]
                  b == rows[k + 1]
              IN  \/ StrRank(a.sensor_kind) < StrRank(b.sensor_kind)
                  \/ /\ a.sensor_kind = b.sensor_kind
                     /\ StrRank(a.promoter_code) < StrRank(b.promoter_code)
                  \/ /\ a.sensor_kind = b.sensor_kind
                     /\ a.promoter_code = b.promoter_code
                     /\ IndexKey(a) <= IndexKey(b)
        /\ \A k1, k2 \in 1..Len(rows) :
              ( /\ rows[k1].sensor_kind = rows[k2].sensor_kind
                /\ rows[k1].promoter_code = rows[k2].promoter_code
                /\ ~IsPyInt(rows[k1].modifier_index) /\ IsPyInt(rows[k2].modifier_index) )
              => k2 < k1

\* C8 witness: the CSV gave modifier 1000 before modifier 3 for the same
\* sensor kind and promoter; the result has 3 directly before 1000, and holds
\* the Energy Sensor row, whose modifier index is no integer.
C8_Witness ==
    /\ pc = "done" /\ Len(csvRead) = 2
    /\ IntOf(Strip(csvRead[1].Modifier)) = <<1000>> /\ IntOf(Strip(csvRead[2].Modifier)) = <<3>>
    /\ \E k \in 1..(Len(rows) - 1) :
          /\ rows[k].sensor_kind = rows[k + 1].sensor_kind
          /\ rows[k].promoter_code = rows[k + 1].promoter_code
          /\ rows[k].modifier_index = PyInt(3) /\ rows[k + 1].modifier_index = PyInt(1000)
    /\ \E k \in 1..Len(rows) : ~IsPyInt(rows[k].modifier_index)

\* C10 as claimed: the patcher changes the last component of the third vec4
\* from 0.0 to 1.0 only in records whose header index is within 1..19; every
\* other record is written back unchanged.
C10_OnlyAminoAcids ==
    pc = "patched" =>
        /\ Len(shaderText) = Len(origText)
        /\ \A k \in 1..Len(origText) :
              \/ shaderText[k] = origText[k]
              \/ /\ origText[k].idx \in 1..19
                 /\ origText[k].w = "0.0"
                 /\ shaderText[k] = [origText[k] EXCEPT !.w = "1.0"]
====
